---- MODULE Spec2Model ----
(***************************************************************************)
(* Model of bi_utils/utils.py: the upsert loader merge_tmp_into_target_tbl,*)
(* its printing twin print_merge_query, and the environment gate           *)
(* deployment.                                                             *)
(*                                                                         *)
(* Text is modelled character by character: a Python str is a sequence of  *)
(* one-character strings, so that split, strip, join, the [:-5] slice and  *)
(* str.format are computed as Python computes them and the generated SQL   *)
(* can be parsed back.  Identifiers are drawn from letters, underscore and *)
(* whitespace; names holding quotes, commas or braces are outside the      *)
(* alphabet of the model.  Lines written by the logger are not modelled.   *)
(***************************************************************************)
EXTENDS Integers, Sequences, FiniteSets

VARIABLES
  pk_columns,      \* argument pk_columns (text)
  exasol_schema,   \* argument exasol_schema (text)
  exasol_table,    \* argument exasol_table (text)
  temp_schema,     \* argument temp_schema: <<>> is None, <<t>> is the text t
  temp_tbl,        \* argument temp_tbl:    <<>> is None, <<t>> is the text t
  dataframe,       \* per invocation: [columns, rows] of the pandas dataframe
  staging,         \* the staging table: [columns, rows]
  target,          \* the target table: set of rows merged into it
  pc,              \* per invocation: position in the function body
  tmp_schema,      \* per invocation: local tmp_schema
  tmp_table,       \* per invocation: local tmp_table
  merge_query,     \* per invocation: the formatted statement handed to execute / print
  ops,             \* per invocation: database operations attempted, in order
  exc,             \* per invocation: the step whose driver call raised, or "none"
  merge_saw,       \* per invocation: rows of the staging table when MERGE executed
  stdout,          \* per invocation: text written to sys.stdout by print()
  serialized,      \* TRUE when the caller runs invocations one after the other
  env,             \* deployment: argument env
  prod,            \* deployment: argument prod
  dev,             \* deployment: argument dev
  d_pc,            \* deployment: "call", "running" (returned) or "exited"
  d_log            \* deployment: message passed to logger.info

vars == <<pk_columns, exasol_schema, exasol_table, temp_schema, temp_tbl, dataframe,
          staging, target, pc, tmp_schema, tmp_table, merge_query, ops, exc,
          merge_saw, stdout, serialized, env, prod, dev, d_pc, d_log>>

args == <<pk_columns, exasol_schema, exasol_table, temp_schema, temp_tbl>>

dvars == <<env, prod, dev, d_pc, d_log>>

(***************************************************************************)
(* Bounds                                                                  *)
(***************************************************************************)
MaxPk == 2      \* most elements in the comma-separated pk_columns input

MaxCols == 2    \* most columns of the dataframe

(***************************************************************************)
(* Python str operations                                                   *)
(***************************************************************************)
\* characters removed by str.strip() with no argument: those for which
\* str.isspace() holds.  A character with no escape of its own in a string of
\* this module is written as its Python escape, e.g. "\\x0b" is the one character
\* U+000B.
Whitespace ==
  {"\t", "\n", "\\x0b", "\f", "\r", "\\x1c", "\\x1d", "\\x1e", "\\x1f", " ",
   "\\x85", "\\xa0", "\\u1680", "\\u2000", "\\u2001", "\\u2002", "\\u2003",
   "\\u2004", "\\u2005", "\\u2006", "\\u2007", "\\u2008", "\\u2009", "\\u200a",
   "\\u2028", "\\u2029", "\\u202f", "\\u205f", "\\u3000"}

RECURSIVE LStrip(_)
LStrip(s) == IF s # <<>> /\ Head(s) \in Whitespace THEN LStrip(Tail(s)) ELSE s

RECURSIVE RStrip(_)
RStrip(s) ==
  IF s # <<>> /\ s[Len(s)] \in Whitespace THEN RStrip(SubSeq(s, 1, Len(s) - 1)) ELSE s

\* str.strip()
Strip(s) == RStrip(LStrip(s))

\* str.find(pat) + 1 for a non-empty pat: least index at which pat occurs in s, 0 if none
Find(s, pat) ==
  LET hits == {i \in 1..Len(s) : /\ i + Len(pat) - 1 <= Len(s)
                                   /\ s[i] = pat[1]
                                   /\ SubSeq(s, i, i + Len(pat) - 1) = pat}
  IN  IF hits = {} THEN 0 ELSE CHOOSE i \in hits : \A j \in hits : i <= j

\* str.split(sep): always at least one element, "" splits into [""]
RECURSIVE Split(_, _)
Split(s, sep) ==
  LET i == Find(s, sep)
  IN  IF i = 0 THEN <<s>>
      ELSE <<SubSeq(s, 1, i - 1)>> \o Split(SubSeq(s, i + Len(sep), Len(s)), sep)

\* sep.join(list)
RECURSIVE Join(_, _)
Join(sep, list) ==
  IF list = <<>> THEN <<>>
  ELSE IF Len(list) = 1 THEN list[1]
  ELSE list[1] \o sep \o Join(sep, Tail(list))

\* s[:-n]
DropLast(s, n) == IF Len(s) <= n THEN <<>> ELSE SubSeq(s, 1, Len(s) - n)

\* keyword lookup of str.format: kw is a sequence of <<name, value>> pairs
KwGet(kw, name) == (CHOOSE i \in 1..Len(kw) : kw[i][1] = name) 

\* str.format(**kw) on a template whose replacement fields are {name}
RECURSIVE Format(_, _)
Format(s, kw) ==
  LET i == Find(s, <<"{">>)
  IN  IF i = 0 THEN s
      ELSE LET rest == SubSeq(s, i + 1, Len(s))
               j    == Find(rest, <<"}">>)
               name == SubSeq(rest, 1, j - 1)
           IN  SubSeq(s, 1, i - 1) \o kw[KwGet(kw, name)][2]
                 \o Format(SubSeq(rest, j + 1, Len(rest)), kw)

\* [x for x in list if x not in excluded]
RECURSIVE NotIn(_, _)
NotIn(list, excluded) ==
  IF list = <<>> THEN <<>>
  ELSE (IF \E k \in 1..Len(excluded) : excluded[k] = Head(list) THEN <<>> ELSE <<Head(list)>>)
         \o NotIn(Tail(list), excluded)

\* pandas Index.str.strip(): strip every column name
StrStrip(columns) == [k \in 1..Len(columns) |-> Strip(columns[k])]

(***************************************************************************)
(* String literals of the two synthesizers                                 *)
(***************************************************************************)
\* merge_tmp_into_target_tbl, line 166: '_TMP'
mtt_TMP_SUFFIX ==
  <<"_", "T", "M", "P">>

\* merge_tmp_into_target_tbl, line 175: 'MERGE INTO {schema}.{tbl} target_tbl USING {schema_tmp}.{tbl_tmp} tmp ON ('
mtt_MERGE_HEAD ==
  <<"M", "E", "R", "G", "E", " ", "I", "N", "T", "O", " ", "{", "s", "c", "h", "e", "m", "a",
     "}", ".", "{", "t", "b", "l", "}", " ", "t", "a", "r", "g", "e", "t", "_", "t", "b", "l",
     " ", "U", "S", "I", "N", "G", " ", "{", "s", "c", "h", "e", "m", "a", "_", "t", "m", "p",
     "}", ".", "{", "t", "b", "l", "_", "t", "m", "p", "}", " ", "t", "m", "p", " ", "O", "N",
     " ", "(">>

\* merge_tmp_into_target_tbl, line 177: 'target_tbl."'
mtt_ON_OPEN ==
  <<"t", "a", "r", "g", "e", "t", "_", "t", "b", "l", ".", "\"">>

\* merge_tmp_into_target_tbl, line 177: '" = tmp."'
mtt_ON_MID ==
  <<"\"", " ", "=", " ", "t", "m", "p", ".", "\"">>

\* merge_tmp_into_target_tbl, line 177: '" AND '
mtt_ON_AND ==
  <<"\"", " ", "A", "N", "D", " ">>

\* merge_tmp_into_target_tbl, line 179: ') '
mtt_ON_CLOSE ==
  <<")", " ">>

\* merge_tmp_into_target_tbl, line 180: 'WHEN MATCHED THEN UPDATE SET target_tbl."UPDATE_TIMESTAMP" = tmp."UPDATE_TIMESTAMP"'
mtt_UPDATE_HEAD ==
  <<"W", "H", "E", "N", " ", "M", "A", "T", "C", "H", "E", "D", " ", "T", "H", "E", "N", " ",
     "U", "P", "D", "A", "T", "E", " ", "S", "E", "T", " ", "t", "a", "r", "g", "e", "t", "_",
     "t", "b", "l", ".", "\"", "U", "P", "D", "A", "T", "E", "_", "T", "I", "M", "E", "S", "T",
     "A", "M", "P", "\"", " ", "=", " ", "t", "m", "p", ".", "\"", "U", "P", "D", "A", "T", "E",
     "_", "T", "I", "M", "E", "S", "T", "A", "M", "P", "\"">>

\* merge_tmp_into_target_tbl, line 183: 'INSERT_TIMESTAMP'
mtt_INSERT_TIMESTAMP ==
  <<"I", "N", "S", "E", "R", "T", "_", "T", "I", "M", "E", "S", "T", "A", "M", "P">>

\* merge_tmp_into_target_tbl, line 183: 'UPDATE_TIMESTAMP'
mtt_UPDATE_TIMESTAMP ==
  <<"U", "P", "D", "A", "T", "E", "_", "T", "I", "M", "E", "S", "T", "A", "M", "P">>

\* merge_tmp_into_target_tbl, line 189: ', target_tbl."'
mtt_SET_OPEN ==
  <<",", " ", "t", "a", "r", "g", "e", "t", "_", "t", "b", "l", ".", "\"">>

\* merge_tmp_into_target_tbl, line 189: '" = tmp."'
mtt_SET_MID ==
  <<"\"", " ", "=", " ", "t", "m", "p", ".", "\"">>

\* merge_tmp_into_target_tbl, line 189: '"'
mtt_SET_CLOSE ==
  <<"\"">>

\* merge_tmp_into_target_tbl, line 192: ' WHEN NOT MATCHED THEN INSERT ("INSERT_TIMESTAMP", "UPDATE_TIMESTAMP", '
mtt_INSERT_HEAD ==
  <<" ", "W", "H", "E", "N", " ", "N", "O", "T", " ", "M", "A", "T", "C", "H", "E", "D", " ",
     "T", "H", "E", "N", " ", "I", "N", "S", "E", "R", "T", " ", "(", "\"", "I", "N", "S", "E",
     "R", "T", "_", "T", "I", "M", "E", "S", "T", "A", "M", "P", "\"", ",", " ", "\"", "U", "P",
     "D", "A", "T", "E", "_", "T", "I", "M", "E", "S", "T", "A", "M", "P", "\"", ",", " ">>

\* merge_tmp_into_target_tbl, line 193: '"'
mtt_QUOTE ==
  <<"\"">>

\* merge_tmp_into_target_tbl, line 193: '", "'
mtt_JOIN_SEP ==
  <<"\"", ",", " ", "\"">>

\* merge_tmp_into_target_tbl, line 194: ') VALUES (tmp."INSERT_TIMESTAMP", tmp."UPDATE_TIMESTAMP"'
mtt_VALUES_HEAD ==
  <<")", " ", "V", "A", "L", "U", "E", "S", " ", "(", "t", "m", "p", ".", "\"", "I", "N", "S",
     "E", "R", "T", "_", "T", "I", "M", "E", "S", "T", "A", "M", "P", "\"", ",", " ", "t", "m",
     "p", ".", "\"", "U", "P", "D", "A", "T", "E", "_", "T", "I", "M", "E", "S", "T", "A", "M",
     "P", "\"">>

\* merge_tmp_into_target_tbl, line 197: ', tmp."'
mtt_VAL_OPEN ==
  <<",", " ", "t", "m", "p", ".", "\"">>

\* merge_tmp_into_target_tbl, line 197: '"'
mtt_VAL_CLOSE ==
  <<"\"">>

\* merge_tmp_into_target_tbl, line 199: ');'
mtt_MERGE_TAIL ==
  <<")", ";">>

\* merge_tmp_into_target_tbl, line 200: 'schema'
mtt_KW_schema ==
  <<"s", "c", "h", "e", "m", "a">>

\* merge_tmp_into_target_tbl, line 200: 'tbl'
mtt_KW_tbl ==
  <<"t", "b", "l">>

\* merge_tmp_into_target_tbl, line 200: 'schema_tmp'
mtt_KW_schema_tmp ==
  <<"s", "c", "h", "e", "m", "a", "_", "t", "m", "p">>

\* merge_tmp_into_target_tbl, line 200: 'tbl_tmp'
mtt_KW_tbl_tmp ==
  <<"t", "b", "l", "_", "t", "m", "p">>

\* print_merge_query, line 363: '_TMP'
pmq_TMP_SUFFIX ==
  <<"_", "T", "M", "P">>

\* print_merge_query, line 366: 'MERGE INTO {schema}.{tbl} target_tbl USING {schema_tmp}.{tbl_tmp} tmp ON ('
pmq_MERGE_HEAD ==
  <<"M", "E", "R", "G", "E", " ", "I", "N", "T", "O", " ", "{", "s", "c", "h", "e", "m", "a",
     "}", ".", "{", "t", "b", "l", "}", " ", "t", "a", "r", "g", "e", "t", "_", "t", "b", "l",
     " ", "U", "S", "I", "N", "G", " ", "{", "s", "c", "h", "e", "m", "a", "_", "t", "m", "p",
     "}", ".", "{", "t", "b", "l", "_", "t", "m", "p", "}", " ", "t", "m", "p", " ", "O", "N",
     " ", "(">>

\* print_merge_query, line 368: 'target_tbl."'
pmq_ON_OPEN ==
  <<"t", "a", "r", "g", "e", "t", "_", "t", "b", "l", ".", "\"">>

\* print_merge_query, line 368: '" = tmp."'
pmq_ON_MID ==
  <<"\"", " ", "=", " ", "t", "m", "p", ".", "\"">>

\* print_merge_query, line 368: '" AND '
pmq_ON_AND ==
  <<"\"", " ", "A", "N", "D", " ">>

\* print_merge_query, line 370: ') '
pmq_ON_CLOSE ==
  <<")", " ">>

\* print_merge_query, line 371: 'WHEN MATCHED THEN UPDATE SET target_tbl."UPDATE_TIMESTAMP" = tmp."UPDATE_TIMESTAMP"'
pmq_UPDATE_HEAD ==
  <<"W", "H", "E", "N", " ", "M", "A", "T", "C", "H", "E", "D", " ", "T", "H", "E", "N", " ",
     "U", "P", "D", "A", "T", "E", " ", "S", "E", "T", " ", "t", "a", "r", "g", "e", "t", "_",
     "t", "b", "l", ".", "\"", "U", "P", "D", "A", "T", "E", "_", "T", "I", "M", "E", "S", "T",
     "A", "M", "P", "\"", " ", "=", " ", "t", "m", "p", ".", "\"", "U", "P", "D", "A", "T", "E",
     "_", "T", "I", "M", "E", "S", "T", "A", "M", "P", "\"">>

\* print_merge_query, line 374: 'INSERT_TIMESTAMP'
pmq_INSERT_TIMESTAMP ==
  <<"I", "N", "S", "E", "R", "T", "_", "T", "I", "M", "E", "S", "T", "A", "M", "P">>

\* print_merge_query, line 374: 'UPDATE_TIMESTAMP'
pmq_UPDATE_TIMESTAMP ==
  <<"U", "P", "D", "A", "T", "E", "_", "T", "I", "M", "E", "S", "T", "A", "M", "P">>

\* print_merge_query, line 378: ', target_tbl."'
pmq_SET_OPEN ==
  <<",", " ", "t", "a", "r", "g", "e", "t", "_", "t", "b", "l", ".", "\"">>

\* print_merge_query, line 378: '" = tmp."'
pmq_SET_MID ==
  <<"\"", " ", "=", " ", "t", "m", "p", ".", "\"">>

\* print_merge_query, line 378: '"'
pmq_SET_CLOSE ==
  <<"\"">>

\* print_merge_query, line 381: ' WHEN NOT MATCHED THEN INSERT ("INSERT_TIMESTAMP", "UPDATE_TIMESTAMP", '
pmq_INSERT_HEAD ==
  <<" ", "W", "H", "E", "N", " ", "N", "O", "T", " ", "M", "A", "T", "C", "H", "E", "D", " ",
     "T", "H", "E", "N", " ", "I", "N", "S", "E", "R", "T", " ", "(", "\"", "I", "N", "S", "E",
     "R", "T", "_", "T", "I", "M", "E", "S", "T", "A", "M", "P", "\"", ",", " ", "\"", "U", "P",
     "D", "A", "T", "E", "_", "T", "I", "M", "E", "S", "T", "A", "M", "P", "\"", ",", " ">>

\* print_merge_query, line 382: '"'
pmq_QUOTE ==
  <<"\"">>

\* print_merge_query, line 382: '", "'
pmq_JOIN_SEP ==
  <<"\"", ",", " ", "\"">>

\* print_merge_query, line 383: ') VALUES (tmp."INSERT_TIMESTAMP", tmp."UPDATE_TIMESTAMP"'
pmq_VALUES_HEAD ==
  <<")", " ", "V", "A", "L", "U", "E", "S", " ", "(", "t", "m", "p", ".", "\"", "I", "N", "S",
     "E", "R", "T", "_", "T", "I", "M", "E", "S", "T", "A", "M", "P", "\"", ",", " ", "t", "m",
     "p", ".", "\"", "U", "P", "D", "A", "T", "E", "_", "T", "I", "M", "E", "S", "T", "A", "M",
     "P", "\"">>

\* print_merge_query, line 386: ', tmp."'
pmq_VAL_OPEN ==
  <<",", " ", "t", "m", "p", ".", "\"">>

\* print_merge_query, line 386: '"'
pmq_VAL_CLOSE ==
  <<"\"">>

\* print_merge_query, line 388: ');'
pmq_MERGE_TAIL ==
  <<")", ";">>

\* print_merge_query, line 389: 'schema'
pmq_KW_schema ==
  <<"s", "c", "h", "e", "m", "a">>

\* print_merge_query, line 389: 'tbl'
pmq_KW_tbl ==
  <<"t", "b", "l">>

\* print_merge_query, line 389: 'schema_tmp'
pmq_KW_schema_tmp ==
  <<"s", "c", "h", "e", "m", "a", "_", "t", "m", "p">>

\* print_merge_query, line 389: 'tbl_tmp'
pmq_KW_tbl_tmp ==
  <<"t", "b", "l", "_", "t", "m", "p">>

(***************************************************************************)
(* merge_tmp_into_target_tbl: statement synthesis, lines 165-201           *)
(***************************************************************************)
\* tmp_table = exasol_table if temp_tbl is None else temp_tbl
mtt_tmp_table(tbl, t_tbl) == IF t_tbl = <<>> THEN tbl ELSE t_tbl[1]

\* tmp_schema = exasol_schema + "_TMP" if temp_schema is None else temp_schema
mtt_tmp_schema(schema, t_schema) ==
  IF t_schema = <<>> THEN schema \o mtt_TMP_SUFFIX ELSE t_schema[1]

\* pk_columns_list = [str(item).strip() for item in pk_columns.split(',')]
mtt_pk_columns_list(pk) ==
  LET parts == Split(pk, <<",">>) IN [k \in 1..Len(parts) |-> Strip(parts[k])]

\* for i in pk_columns_list: merge_query += 'target_tbl."' + i + '" = tmp."' + i + '" AND '
RECURSIVE mtt_on_loop(_)
mtt_on_loop(list) ==
  IF list = <<>> THEN <<>>
  ELSE mtt_ON_OPEN \o Head(list) \o mtt_ON_MID \o Head(list) \o mtt_ON_AND
         \o mtt_on_loop(Tail(list))

\* variant: the slice removes four characters instead of five
mtt_on_clause_drop4(query) == DropLast(query, 4) \o mtt_ON_CLOSE

\* merge_query = merge_query[:-5] + ') '
mtt_on_clause(query) == DropLast(query, 5) \o mtt_ON_CLOSE

\* cols_not_to_merge = pk_columns_list + ["INSERT_TIMESTAMP", "UPDATE_TIMESTAMP"]
mtt_cols_not_to_merge(pk_list) == pk_list \o <<mtt_INSERT_TIMESTAMP, mtt_UPDATE_TIMESTAMP>>

\* variant: the dataframe's column names are compared without being stripped
mtt_cols_merge_unstripped(columns, pk_list) == NotIn(columns, mtt_cols_not_to_merge(pk_list))

\* dataframe.columns = dataframe.columns.str.strip()
\* cols_merge = [col for col in dataframe.columns if col not in cols_not_to_merge]
mtt_cols_merge(columns, pk_list) == NotIn(StrStrip(columns), mtt_cols_not_to_merge(pk_list))

\* for i in cols_merge: merge_query += ', target_tbl."' + i.strip() + '" = tmp."' + i.strip() + '"'
RECURSIVE mtt_set_loop(_)
mtt_set_loop(list) ==
  IF list = <<>> THEN <<>>
  ELSE mtt_SET_OPEN \o Strip(Head(list)) \o mtt_SET_MID \o Strip(Head(list)) \o mtt_SET_CLOSE
         \o mtt_set_loop(Tail(list))

\* variant: the VALUES list qualifies the columns with target_tbl
RECURSIVE mtt_values_loop_target(_)
mtt_values_loop_target(list) ==
  IF list = <<>> THEN <<>>
  ELSE mtt_SET_OPEN \o Strip(Head(list)) \o mtt_VAL_CLOSE \o mtt_values_loop_target(Tail(list))

\* for i in pk_columns_list + cols_merge: merge_query += ', tmp."' + i.strip() + '"'
RECURSIVE mtt_values_loop(_)
mtt_values_loop(list) ==
  IF list = <<>> THEN <<>>
  ELSE mtt_VAL_OPEN \o Strip(Head(list)) \o mtt_VAL_CLOSE \o mtt_values_loop(Tail(list))

\* the template built by lines 174-199, before .format
mtt_template(pk, columns) ==
  LET pk_list == mtt_pk_columns_list(pk)
      merge   == mtt_cols_merge(columns, pk_list)
  IN  mtt_on_clause(mtt_MERGE_HEAD \o mtt_on_loop(pk_list))
        \o mtt_UPDATE_HEAD
        \o mtt_set_loop(merge)
        \o mtt_INSERT_HEAD
        \o mtt_QUOTE \o Join(mtt_JOIN_SEP, pk_list \o merge) \o mtt_QUOTE
        \o mtt_VALUES_HEAD
        \o mtt_values_loop(pk_list \o merge)
        \o mtt_MERGE_TAIL

\* merge_query.format(schema=exasol_schema, tbl=exasol_table, schema_tmp=tmp_schema, tbl_tmp=tmp_table)
mtt_statement(pk, columns, schema, tbl, schema_tmp, tbl_tmp) ==
  Format(mtt_template(pk, columns),
         << <<mtt_KW_schema, schema>>, <<mtt_KW_tbl, tbl>>,
            <<mtt_KW_schema_tmp, schema_tmp>>, <<mtt_KW_tbl_tmp, tbl_tmp>> >>)

(***************************************************************************)
(* print_merge_query: statement synthesis, lines 362-389                   *)
(***************************************************************************)
\* tmp_table = exasol_table if temp_tbl is None else temp_tbl
pmq_tmp_table(tbl, t_tbl) == IF t_tbl = <<>> THEN tbl ELSE t_tbl[1]

\* variant: the default staging schema lacks the _TMP suffix
pmq_tmp_schema_no_suffix(schema, t_schema) == IF t_schema = <<>> THEN schema ELSE t_schema[1]

\* tmp_schema = exasol_schema + "_TMP" if temp_schema is None else temp_schema
pmq_tmp_schema(schema, t_schema) ==
  IF t_schema = <<>> THEN schema \o pmq_TMP_SUFFIX ELSE t_schema[1]

\* pk_columns_list = [str(item).strip() for item in pk_columns.split(',')]
pmq_pk_columns_list(pk) ==
  LET parts == Split(pk, <<",">>) IN [k \in 1..Len(parts) |-> Strip(parts[k])]

RECURSIVE pmq_on_loop(_)
pmq_on_loop(list) ==
  IF list = <<>> THEN <<>>
  ELSE pmq_ON_OPEN \o Head(list) \o pmq_ON_MID \o Head(list) \o pmq_ON_AND
         \o pmq_on_loop(Tail(list))

\* merge_query = merge_query[:-5] + ') '
pmq_on_clause(query) == DropLast(query, 5) \o pmq_ON_CLOSE

pmq_cols_not_to_merge(pk_list) == pk_list \o <<pmq_INSERT_TIMESTAMP, pmq_UPDATE_TIMESTAMP>>

pmq_cols_merge(columns, pk_list) == NotIn(StrStrip(columns), pmq_cols_not_to_merge(pk_list))

RECURSIVE pmq_set_loop(_)
pmq_set_loop(list) ==
  IF list = <<>> THEN <<>>
  ELSE pmq_SET_OPEN \o Strip(Head(list)) \o pmq_SET_MID \o Strip(Head(list)) \o pmq_SET_CLOSE
         \o pmq_set_loop(Tail(list))

RECURSIVE pmq_values_loop(_)
pmq_values_loop(list) ==
  IF list = <<>> THEN <<>>
  ELSE pmq_VAL_OPEN \o Strip(Head(list)) \o pmq_VAL_CLOSE \o pmq_values_loop(Tail(list))

pmq_template(pk, columns) ==
  LET pk_list == pmq_pk_columns_list(pk)
      merge   == pmq_cols_merge(columns, pk_list)
  IN  pmq_on_clause(pmq_MERGE_HEAD \o pmq_on_loop(pk_list))
        \o pmq_UPDATE_HEAD
        \o pmq_set_loop(merge)
        \o pmq_INSERT_HEAD
        \o pmq_QUOTE \o Join(pmq_JOIN_SEP, pk_list \o merge) \o pmq_QUOTE
        \o pmq_VALUES_HEAD
        \o pmq_values_loop(pk_list \o merge)
        \o pmq_MERGE_TAIL

pmq_statement(pk, columns, schema, tbl, schema_tmp, tbl_tmp) ==
  Format(pmq_template(pk, columns),
         << <<pmq_KW_schema, schema>>, <<pmq_KW_tbl, tbl>>,
            <<pmq_KW_schema_tmp, schema_tmp>>, <<pmq_KW_tbl_tmp, tbl_tmp>> >>)

(***************************************************************************)
(* deployment, lines 66-122                                                *)
(***************************************************************************)
\* Python values of the arguments: <<>> is None, <<v>> is the value v
None == <<>>

\* x == v for a bool or str literal v
PyEq(x, v) == x # None /\ x[1] = v

\* the if/elif chain of lines 89-120: whether exit() is reached, and the message logged
deployment(e, pr, dv) ==
  IF      PyEq(pr, FALSE) /\ PyEq(dv, FALSE) /\ e = None
     THEN [exit |-> TRUE,  log |-> "runs neither in prod nor dev"]
  ELSE IF PyEq(pr, FALSE) /\ PyEq(dv, FALSE) /\ PyEq(e, "prod")
     THEN [exit |-> TRUE,  log |-> "runs neither in prod nor dev"]
  ELSE IF PyEq(pr, FALSE) /\ PyEq(dv, FALSE) /\ PyEq(e, "dev")
     THEN [exit |-> TRUE,  log |-> "runs neither in prod nor dev"]
  ELSE IF e = None
     THEN [exit |-> FALSE, log |-> "runs in prod and dev"]
  ELSE IF PyEq(pr, TRUE) /\ PyEq(dv, TRUE) /\ PyEq(e, "prod")
     THEN [exit |-> FALSE, log |-> "runs in prod and dev"]
  ELSE IF PyEq(pr, TRUE) /\ PyEq(dv, TRUE) /\ PyEq(e, "dev")
     THEN [exit |-> FALSE, log |-> "runs in prod and dev"]
  ELSE IF PyEq(pr, TRUE) /\ PyEq(dv, FALSE) /\ PyEq(e, "prod")
     THEN [exit |-> FALSE, log |-> "runs in prod only"]
  ELSE IF PyEq(pr, TRUE) /\ PyEq(dv, FALSE) /\ PyEq(e, "dev")
     THEN [exit |-> TRUE,  log |-> "not running in dev - exit script"]
  ELSE IF PyEq(pr, FALSE) /\ PyEq(dv, TRUE) /\ PyEq(e, "dev")
     THEN [exit |-> FALSE, log |-> "runs in dev only"]
  ELSE IF PyEq(pr, FALSE) /\ PyEq(dv, TRUE) /\ PyEq(e, "prod")
     THEN [exit |-> TRUE,  log |-> "not running in prod - exit script"]
  ELSE    [exit |-> FALSE, log |-> ""]

(***************************************************************************)
(* The database behind the connection                                      *)
(***************************************************************************)
\* variant: the truncation is lost
TruncateTable_noop(tbl) == tbl

\* TRUNCATE TABLE: all rows removed, columns kept
TruncateTable(tbl) == [tbl EXCEPT !.rows = <<>>]

\* variant: the import loads nothing
ImportFromPandas_nothing(tbl, df) == tbl

\* import_from_pandas: the dataframe's rows are appended to the table
ImportFromPandas(tbl, df) == [tbl EXCEPT !.rows = tbl.rows \o df.rows]

\* MERGE INTO target USING staging: every staging row is upserted into the target
MergeInto(tgt, tbl) == tgt \cup {tbl.rows[k] : k \in 1..Len(tbl.rows)}

(***************************************************************************)
(* Inputs                                                                  *)
(***************************************************************************)
Procs == {1, 2}

\* sequences over S of length lo..hi
SeqsOf(S, lo, hi) == UNION {[1..n -> S] : n \in lo..hi}

\* elements of the pk_columns input: a padded name, a plain name, a reserved name
PkElems == {<<" ", "A">>, <<"B">>, mtt_UPDATE_TIMESTAMP}

\* comma-separated inputs of up to MaxPk elements; the empty input, the blank input
\* and an input with a trailing comma
PkInputs == {Join(<<",">>, l) : l \in SeqsOf(PkElems, 1, MaxPk)}
              \cup {<<>>, <<" ">>, <<"B", ",">>}

\* column names of the dataframe, some padded
ColNames == {<<"A">>, <<"A", "\\xa0">>, <<" ", "B">>, <<"C">>,
             mtt_INSERT_TIMESTAMP \o <<"\f">>, mtt_UPDATE_TIMESTAMP}

\* column lists without repeated names
ColumnLists == {l \in SeqsOf(ColNames, 0, MaxCols) :
                  \A a, b \in 1..Len(l) : a # b => l[a] # l[b]}

SchemaName == <<"S">>

TableName == <<"T">>

\* (temp_schema, temp_tbl): both defaulted or both overridden
Overrides == {<<None, None>>, << <<<<"X">>>>, <<<<"Y">>>> >>}

RowsOf(p) == IF p = 1 THEN <<"r1">> ELSE <<"r2">>

InitLocals ==
  /\ pc = [p \in Procs |-> "idle"]
  /\ tmp_schema = [p \in Procs |-> <<>>]
  /\ tmp_table = [p \in Procs |-> <<>>]
  /\ merge_query = [p \in Procs |-> <<>>]
  /\ ops = [p \in Procs |-> <<>>]
  /\ exc = [p \in Procs |-> "none"]
  /\ merge_saw = [p \in Procs |-> <<>>]
  /\ stdout = [p \in Procs |-> <<>>]
  /\ target = {}

InitNoDeployment ==
  /\ env = None /\ prod = <<TRUE>> /\ dev = <<TRUE>>
  /\ d_pc = "running" /\ d_log = ""

\* one script calling the loader or the printer once; the staging table was created
\* with the dataframe's column names and holds the rows an earlier run left in it
Init ==
  /\ pk_columns \in PkInputs
  /\ exasol_schema = SchemaName /\ exasol_table = TableName
  /\ \E o \in Overrides : temp_schema = o[1] /\ temp_tbl = o[2]
  /\ \E cols \in ColumnLists :
       /\ dataframe = [p \in Procs |-> [columns |-> cols, rows |-> RowsOf(p)]]
       /\ staging = [columns |-> cols, rows |-> <<"r0">>]
  /\ serialized = TRUE
  /\ InitLocals
  /\ InitNoDeployment

(***************************************************************************)
(* Actions of merge_tmp_into_target_tbl, lines 147-205                     *)
(***************************************************************************)
\* variant: the exception is caught and the function carries on with the next step
Swallow(p, step) ==
  /\ ops' = [ops EXCEPT ![p] = Append(@, step)]
  /\ exc' = [exc EXCEPT ![p] = step]
  /\ pc' = [pc EXCEPT ![p] = IF step = "truncate" THEN "import"
                             ELSE IF step = "import" THEN "merge"
                             ELSE IF step = "merge" THEN "count" ELSE "returned"]

\* a driver call raising: no try/except in lines 163-205 and 359-389, the exception
\* leaves the function
Raise(p, step) ==
  /\ ops' = [ops EXCEPT ![p] = Append(@, step)]
  /\ exc' = [exc EXCEPT ![p] = step]
  /\ pc' = [pc EXCEPT ![p] = "raised"]

\* lines 163-167: entry, locals tmp_table and tmp_schema
MergeCall(p) ==
  /\ pc[p] = "idle"
  /\ tmp_table' = [tmp_table EXCEPT ![p] = mtt_tmp_table(exasol_table, temp_tbl)]
  /\ tmp_schema' = [tmp_schema EXCEPT ![p] = mtt_tmp_schema(exasol_schema, temp_schema)]
  /\ pc' = [pc EXCEPT ![p] = "truncate"]
  /\ UNCHANGED <<args, dataframe, staging, target, merge_query, ops, exc, merge_saw,
                 stdout, serialized, dvars>>

\* line 168: connection.execute('TRUNCATE TABLE ...')
Truncate(p) ==
  /\ pc[p] = "truncate"
  /\ staging' = TruncateTable(staging)
  /\ ops' = [ops EXCEPT ![p] = Append(@, "truncate")]
  /\ pc' = [pc EXCEPT ![p] = "import"]
  /\ UNCHANGED <<args, dataframe, target, tmp_schema, tmp_table, merge_query, exc,
                 merge_saw, stdout, serialized, dvars>>

\* line 168 raising: nothing after it runs
TruncateRaises(p) ==
  /\ pc[p] = "truncate"
  /\ Raise(p, "truncate")
  /\ UNCHANGED <<args, dataframe, staging, target, tmp_schema, tmp_table, merge_query,
                 merge_saw, stdout, serialized, dvars>>

\* line 170: connection.import_from_pandas(dataframe, (tmp_schema, tmp_table))
Import(p) ==
  /\ pc[p] = "import"
  /\ staging' = ImportFromPandas(staging, dataframe[p])
  /\ ops' = [ops EXCEPT ![p] = Append(@, "import")]
  /\ pc' = [pc EXCEPT ![p] = "merge"]
  /\ UNCHANGED <<args, dataframe, target, tmp_schema, tmp_table, merge_query, exc,
                 merge_saw, stdout, serialized, dvars>>

ImportRaises(p) ==
  /\ pc[p] = "import"
  /\ Raise(p, "import")
  /\ UNCHANGED <<args, dataframe, staging, target, tmp_schema, tmp_table, merge_query,
                 merge_saw, stdout, serialized, dvars>>

\* lines 174-199 leave the dataframe's column names stripped and build the statement
Synthesize(p) ==
  /\ merge_query' = [merge_query EXCEPT ![p] =
        mtt_statement(pk_columns, dataframe[p].columns, exasol_schema, exasol_table,
                      tmp_schema[p], tmp_table[p])]
  /\ dataframe' = [dataframe EXCEPT ![p].columns = StrStrip(@)]

\* lines 174-201: synthesis, then connection.execute(merge_query.format(...))
ExecuteMerge(p) ==
  /\ pc[p] = "merge"
  /\ Synthesize(p)
  /\ merge_saw' = [merge_saw EXCEPT ![p] = staging.rows]
  /\ target' = MergeInto(target, staging)
  /\ ops' = [ops EXCEPT ![p] = Append(@, "merge")]
  /\ pc' = [pc EXCEPT ![p] = "count"]
  /\ UNCHANGED <<args, staging, tmp_schema, tmp_table, exc, stdout, serialized, dvars>>

\* line 200 raising: the statement was built and submitted, the tables are unchanged
ExecuteMergeRaises(p) ==
  /\ pc[p] = "merge"
  /\ Synthesize(p)
  /\ Raise(p, "merge")
  /\ UNCHANGED <<args, staging, target, tmp_schema, tmp_table, merge_saw, stdout,
                 serialized, dvars>>

\* lines 202-205: count query, log, return
CountRows(p) ==
  /\ pc[p] = "count"
  /\ ops' = [ops EXCEPT ![p] = Append(@, "count")]
  /\ pc' = [pc EXCEPT ![p] = "returned"]
  /\ UNCHANGED <<args, dataframe, staging, target, tmp_schema, tmp_table, merge_query,
                 exc, merge_saw, stdout, serialized, dvars>>

CountRaises(p) ==
  /\ pc[p] = "count"
  /\ Raise(p, "count")
  /\ UNCHANGED <<args, dataframe, staging, target, tmp_schema, tmp_table, merge_query,
                 merge_saw, stdout, serialized, dvars>>

(***************************************************************************)
(* Actions of print_merge_query, lines 353-389                             *)
(***************************************************************************)
\* what print() appends to its argument
pmq_PRINT_END == <<"\n">>

\* lines 359-363: return_exa_conn connects, then the locals tmp_table and tmp_schema
PrintConnect(p) ==
  /\ pc[p] = "idle"
  /\ ops' = [ops EXCEPT ![p] = Append(@, "connect")]
  /\ tmp_table' = [tmp_table EXCEPT ![p] = pmq_tmp_table(exasol_table, temp_tbl)]
  /\ tmp_schema' = [tmp_schema EXCEPT ![p] = pmq_tmp_schema(exasol_schema, temp_schema)]
  /\ pc' = [pc EXCEPT ![p] = "select"]
  /\ UNCHANGED <<args, dataframe, staging, target, merge_query, exc, merge_saw, stdout,
                 serialized, dvars>>

\* pyexasol.connect (line 216, called at line 361) raising
PrintConnectRaises(p) ==
  /\ pc[p] = "idle"
  /\ Raise(p, "connect")
  /\ UNCHANGED <<args, dataframe, staging, target, tmp_schema, tmp_table, merge_query,
                 merge_saw, stdout, serialized, dvars>>

\* lines 364-389: SELECT * FROM the staging table, synthesis from its columns, print
PrintSelect(p) ==
  /\ pc[p] = "select"
  /\ ops' = [ops EXCEPT ![p] = Append(@, "select")]
  /\ stdout' = [stdout EXCEPT ![p] =
        @ \o pmq_statement(pk_columns, staging.columns, exasol_schema, exasol_table,
                           tmp_schema[p], tmp_table[p]) \o pmq_PRINT_END]
  /\ pc' = [pc EXCEPT ![p] = "printed"]
  /\ UNCHANGED <<args, dataframe, staging, target, tmp_schema, tmp_table, merge_query,
                 exc, merge_saw, serialized, dvars>>

\* export_to_pandas (line 364) raising
PrintSelectRaises(p) ==
  /\ pc[p] = "select"
  /\ Raise(p, "select")
  /\ UNCHANGED <<args, dataframe, staging, target, tmp_schema, tmp_table, merge_query,
                 merge_saw, stdout, serialized, dvars>>

\* the script calls the loader or the printer; every driver call succeeds
Next ==
  \/ MergeCall(1)
  \/ Truncate(1)
  \/ Import(1)
  \/ ExecuteMerge(1)
  \/ CountRows(1)
  \/ PrintConnect(1)
  \/ PrintSelect(1)

Spec == Init /\ [][Next]_vars

(***************************************************************************)
(* One invocation against the database, every driver call may raise        *)
(***************************************************************************)
\* rows the staging table may hold before the call
OldRows == {<<>>, <<"r0">>, <<"r0", "r1">>}

\* rows of the dataframe
NewRows == {<<>>, <<"r1">>, <<"r1", "r2">>}

InitLoad ==
  /\ pk_columns \in {<<"A">>, <<" ", "A", ",", "B">>}
  /\ exasol_schema = SchemaName /\ exasol_table = TableName
  /\ \E o \in Overrides : temp_schema = o[1] /\ temp_tbl = o[2]
  /\ \E cols \in {<<<<"A">>, <<" ", "B">>, <<"C">>>>} :
       /\ \E rows \in NewRows :
            dataframe = [p \in Procs |-> [columns |-> cols, rows |-> rows]]
       /\ \E old \in OldRows : staging = [columns |-> cols, rows |-> old]
  /\ serialized = TRUE
  /\ InitLocals
  /\ InitNoDeployment

NextLoad ==
  \/ MergeCall(1)
  \/ Truncate(1)
  \/ TruncateRaises(1)
  \/ Import(1)
  \/ ImportRaises(1)
  \/ ExecuteMerge(1)
  \/ ExecuteMergeRaises(1)
  \/ CountRows(1)
  \/ CountRaises(1)
  \/ PrintConnect(1)
  \/ PrintConnectRaises(1)
  \/ PrintSelect(1)
  \/ PrintSelectRaises(1)

SpecLoad == InitLoad /\ [][NextLoad]_vars

(***************************************************************************)
(* Two invocations of the loader on one staging table                      *)
(***************************************************************************)
Active(q) == pc[q] \in {"truncate", "import", "merge", "count"}

\* what the caller does when it serializes the invocations (spec, section 5)
CallerMayEnter(p) == serialized => \A q \in Procs \ {p} : ~Active(q)

InitConc ==
  /\ pk_columns \in {<<"A">>, <<" ", "A", ",", "B">>}
  /\ exasol_schema = SchemaName /\ exasol_table = TableName
  /\ \E o \in Overrides : temp_schema = o[1] /\ temp_tbl = o[2]
  /\ \E cols \in {<<<<"A">>, <<" ", "B">>, <<"C">>>>} :
       /\ dataframe = [p \in Procs |-> [columns |-> cols, rows |-> RowsOf(p)]]
       /\ \E old \in {<<>>, <<"r0">>} : staging = [columns |-> cols, rows |-> old]
  /\ serialized \in BOOLEAN
  /\ InitLocals
  /\ InitNoDeployment

NextConc ==
  \E p \in Procs :
    \/ CallerMayEnter(p) /\ MergeCall(p)
    \/ Truncate(p)
    \/ TruncateRaises(p)
    \/ Import(p)
    \/ ImportRaises(p)
    \/ ExecuteMerge(p)
    \/ ExecuteMergeRaises(p)
    \/ CountRows(p)
    \/ CountRaises(p)

SpecConc == InitConc /\ [][NextConc]_vars

(***************************************************************************)
(* A script gated by deployment(env, prod, dev)                            *)
(***************************************************************************)
EnvValues == {None, <<"prod">>, <<"dev">>, <<"test">>, <<"PROD">>, <<"staging">>, <<"">>}

FlagValues == {<<TRUE>>, <<FALSE>>, None}

InitDeploy ==
  /\ env \in EnvValues /\ prod \in FlagValues /\ dev \in FlagValues
  /\ d_pc = "call" /\ d_log = ""
  /\ pk_columns = <<"A">>
  /\ exasol_schema = SchemaName /\ exasol_table = TableName
  /\ temp_schema = None /\ temp_tbl = None
  /\ dataframe = [p \in Procs |-> [columns |-> <<<<"A">>>>, rows |-> RowsOf(p)]]
  /\ staging = [columns |-> <<<<"A">>>>, rows |-> <<>>]
  /\ serialized = TRUE
  /\ InitLocals

\* lines 86-122: exit() ends the script, otherwise the call returns
Deployment ==
  /\ d_pc = "call"
  /\ d_log' = deployment(env, prod, dev).log
  /\ d_pc' = IF deployment(env, prod, dev).exit THEN "exited" ELSE "running"
  /\ UNCHANGED <<args, dataframe, staging, target, pc, tmp_schema, tmp_table, merge_query,
                 ops, exc, merge_saw, stdout, serialized, env, prod, dev>>

NextDeploy == Deployment

SpecDeploy == InitDeploy /\ [][NextDeploy]_vars

(***************************************************************************)
(* Reading a MERGE statement back: the grammar of spec section 6           *)
(***************************************************************************)
\* ' ON ('
SqlOnOpen ==
  <<" ", "O", "N", " ", "(">>

\* ') WHEN MATCHED THEN UPDATE SET '
SqlOnClose ==
  <<")", " ", "W", "H", "E", "N", " ", "M", "A", "T", "C", "H", "E", "D", " ", "T", "H", "E",
     "N", " ", "U", "P", "D", "A", "T", "E", " ", "S", "E", "T", " ">>

\* ' AND '
SqlAnd ==
  <<" ", "A", "N", "D", " ">>

\* ' WHEN NOT MATCHED THEN INSERT ('
SqlInsertOpen ==
  <<" ", "W", "H", "E", "N", " ", "N", "O", "T", " ", "M", "A", "T", "C", "H", "E", "D", " ",
     "T", "H", "E", "N", " ", "I", "N", "S", "E", "R", "T", " ", "(">>

\* ') VALUES ('
SqlValuesOpen ==
  <<")", " ", "V", "A", "L", "U", "E", "S", " ", "(">>

\* ');'
SqlEnd ==
  <<")", ";">>

\* ', '
SqlComma ==
  <<",", " ">>

\* 'target_tbl."'
SqlTargetQ ==
  <<"t", "a", "r", "g", "e", "t", "_", "t", "b", "l", ".", "\"">>

\* '" = tmp."'
SqlEqTmpQ ==
  <<"\"", " ", "=", " ", "t", "m", "p", ".", "\"">>

\* '"'
SqlQ ==
  <<"\"">>

\* 'tmp."'
SqlTmpQ ==
  <<"t", "m", "p", ".", "\"">>

\* 'INSERT_TIMESTAMP'
InsertTimestamp ==
  <<"I", "N", "S", "E", "R", "T", "_", "T", "I", "M", "E", "S", "T", "A", "M", "P">>

\* 'UPDATE_TIMESTAMP'
UpdateTimestamp ==
  <<"U", "P", "D", "A", "T", "E", "_", "T", "I", "M", "E", "S", "T", "A", "M", "P">>

\* the text of s after the first occurrence of pat (empty when pat does not occur)
After(s, pat) ==
  LET i == Find(s, pat) IN IF i = 0 THEN <<>> ELSE SubSeq(s, i + Len(pat), Len(s))

\* the text of s between the first a and the next b
Between(s, a, b) == LET r == After(s, a) IN SubSeq(r, 1, Find(r, b) - 1)

\* the conjuncts of ON ( ... )
OnConjuncts(q) == Split(Between(q, SqlOnOpen, SqlOnClose), SqlAnd)

\* the assignments of UPDATE SET ...
UpdateAssignments(q) == Split(Between(q, SqlOnClose, SqlInsertOpen), SqlComma)

\* the quoted names of INSERT ( ... )
InsertItems(q) == Split(Between(q, SqlInsertOpen, SqlValuesOpen), SqlComma)

\* the items of VALUES ( ... );
ValuesItems(q) == Split(Between(After(q, SqlInsertOpen), SqlValuesOpen, SqlEnd), SqlComma)

\* target_tbl."c" = tmp."c"
Equality(c) == SqlTargetQ \o c \o SqlEqTmpQ \o c \o SqlQ

\* the column an equality or assignment names on its left-hand side
LeftColumn(e) == Between(e, SqlTargetQ, SqlEqTmpQ)

Quoted(c) == SqlQ \o c \o SqlQ

TmpQualified(c) == SqlTmpQ \o c \o SqlQ

\* the trimmed elements of the comma-separated primary-key input
PkOf(pk) == LET parts == Split(pk, <<",">>) IN [k \in 1..Len(parts) |-> Strip(parts[k])]

Elems(list) == {list[k] : k \in 1..Len(list)}

Distinct(list) == \A a, b \in 1..Len(list) : a # b => list[a] # list[b]

\* the trimmed dataframe columns that are neither primary key nor reserved, in order
OtherColumns(pk, columns) ==
  LET Keep(c) == c \notin Elems(PkOf(pk)) \cup {InsertTimestamp, UpdateTimestamp}
  IN  SelectSeq([k \in 1..Len(columns) |-> Strip(columns[k])], Keep)

\* the statement of this invocation has been synthesized and handed to execute
Submitted(p) == merge_query[p] # <<>>

\* the MERGE of this invocation was executed by the database
Merged(p) == pc[p] \in {"count", "returned"} \/ (pc[p] = "raised" /\ exc[p] = "count")

Blank(pk) == Strip(pk) = <<>>

(***************************************************************************)
(* Claims                                                                  *)
(***************************************************************************)

\* C1 (as claimed): a call with an empty or blank pk_columns is rejected before
\* anything happens: the staging table is neither truncated nor loaded, and no
\* MERGE statement is submitted or printed.
C1_EmptyPkRejected ==
  \A p \in Procs :
    Blank(pk_columns) =>
      /\ merge_query[p] = <<>>
      /\ stdout[p] = <<>>
      /\ "truncate" \notin Elems(ops[p])
      /\ "import" \notin Elems(ops[p])

\* C2 (as claimed): the ON clause has one conjunct per element of the split input,
\* in order, the i-th being target_tbl."pk_i" = tmp."pk_i" for the trimmed pk_i,
\* and the conjuncts reference pairwise distinct columns.
C2_OnClauseDistinct ==
  Submitted(1) =>
    LET conj == OnConjuncts(merge_query[1])
        pk   == PkOf(pk_columns)
    IN  /\ Len(conj) = Len(Split(pk_columns, <<",">>))
        /\ \A k \in 1..Len(conj) : conj[k] = Equality(pk[k])
        /\ Distinct([k \in 1..Len(conj) |-> LeftColumn(conj[k])])

\* C2 (amended): the ON clause has one conjunct per element of the split input, in
\* order, the i-th being target_tbl."pk_i" = tmp."pk_i" for the trimmed pk_i; the
\* conjuncts reference pairwise distinct columns exactly when the trimmed elements
\* are pairwise distinct (a repeated element is repeated in the clause).
C2_OnClause ==
  Submitted(1) =>
    LET conj == OnConjuncts(merge_query[1])
        pk   == PkOf(pk_columns)
    IN  /\ Len(conj) = Len(Split(pk_columns, <<",">>))
        /\ \A k \in 1..Len(conj) : conj[k] = Equality(pk[k])
        /\ Distinct([k \in 1..Len(conj) |-> LeftColumn(conj[k])]) <=> Distinct(pk)

\* C2 witness: a two-element input with a padded element has been synthesized
C2_Witness ==
  /\ pc[1] = "count"
  /\ pk_columns = <<" ", "A", ",", "B">>
  /\ Len(OnConjuncts(merge_query[1])) = 2

\* C3 (as claimed, and as the comment at line 182 intends): the UPDATE SET clause
\* assigns UPDATE_TIMESTAMP once, then exactly the dataframe's other columns in
\* dataframe order; it assigns no primary-key column and not INSERT_TIMESTAMP.
\* Line 180 assigns UPDATE_TIMESTAMP even when pk_columns lists it.
C3_UpdateClauseNoKey ==
  Submitted(1) =>
    LET asg  == UpdateAssignments(merge_query[1])
        cols == [k \in 1..Len(asg) |-> LeftColumn(asg[k])]
    IN  /\ \A k \in 1..Len(asg) : asg[k] = Equality(cols[k])
        /\ cols = <<UpdateTimestamp>> \o OtherColumns(pk_columns, dataframe[1].columns)
        /\ Cardinality({k \in 1..Len(cols) : cols[k] = UpdateTimestamp}) = 1
        /\ \A k \in 1..Len(cols) :
             cols[k] \notin Elems(PkOf(pk_columns)) \cup {InsertTimestamp}

\* C4: the INSERT list is INSERT_TIMESTAMP, UPDATE_TIMESTAMP, the primary-key columns
\* in input order, the other dataframe columns in dataframe order; the VALUES list
\* names the same columns tmp-qualified, position by position.
C4_InsertClause ==
  Submitted(1) =>
    LET ins      == InsertItems(merge_query[1])
        vals     == ValuesItems(merge_query[1])
        expected == <<InsertTimestamp, UpdateTimestamp>> \o PkOf(pk_columns)
                      \o OtherColumns(pk_columns, dataframe[1].columns)
    IN  /\ ins = [k \in 1..Len(expected) |-> Quoted(expected[k])]
        /\ vals = [k \in 1..Len(expected) |-> TmpQualified(expected[k])]
        /\ Len(vals) = Len(ins)
        /\ After(merge_query[1], SqlValuesOpen) = Join(SqlComma, vals) \o SqlEnd

\* C4 witness: two primary-key columns and one other column were synthesized
C4_Witness ==
  /\ pc[1] = "returned"
  /\ pk_columns = <<" ", "A", ",", "B">>
  /\ staging.columns = <<<<"C">>, <<" ", "B">>>>
  /\ Len(InsertItems(merge_query[1])) = 5

\* C5: padding names in the dataframe or in pk_columns does not change the
\* statement: it equals the statement synthesized from the trimmed input.
C5_TrimmingInvariant ==
  Submitted(1) =>
    merge_query[1] =
      mtt_statement(Join(<<",">>, PkOf(pk_columns)),
                    [k \in 1..Len(dataframe[1].columns) |-> Strip(dataframe[1].columns[k])],
                    exasol_schema, exasol_table, tmp_schema[1], tmp_table[1])

\* C5 witness: a column padded both in pk_columns and in the dataframe
C5_Witness ==
  /\ pc[1] = "count"
  /\ pk_columns = <<" ", "A">>
  /\ staging.columns = <<<<"A", "\\xa0">>, <<"C">>>>
  /\ LeftColumn(UpdateAssignments(merge_query[1])[2]) = <<"C">>

\* C6: a call in which no step fails performs TRUNCATE, import, MERGE, count once
\* each in that order; MERGE saw, and the staging table afterwards holds, exactly
\* the rows of this call's dataframe.
C6_StepOrder ==
  /\ pc[1] = "count" =>
       /\ ops[1] = <<"truncate", "import", "merge">>
       /\ merge_saw[1] = dataframe[1].rows
  /\ pc[1] = "returned" =>
       /\ ops[1] = <<"truncate", "import", "merge", "count">>
       /\ merge_saw[1] = dataframe[1].rows
       /\ staging.rows = dataframe[1].rows

\* C6 witness: the call returned with a two-row dataframe loaded and merged
C6_Witness ==
  /\ pc[1] = "returned"
  /\ staging.rows = <<"r1", "r2">>
  /\ target = {"r1", "r2"}

\* C7: a failing step propagates: the call ends there, the steps before it ran once
\* in order, none after it, none again; after a failed MERGE the staging table
\* holds the dataframe's rows.
C7_FailurePropagates ==
  exc[1] \in {"truncate", "import", "merge", "count"} =>
    /\ pc[1] = "raised"
    /\ \E n \in 1..4 :
         /\ ops[1] = SubSeq(<<"truncate", "import", "merge", "count">>, 1, n)
         /\ ops[1][n] = exc[1]
    /\ exc[1] = "merge" => staging.rows = dataframe[1].rows

\* C7 witness: the MERGE step raised
C7_Witness == exc[1] = "merge" /\ pc[1] = "raised" /\ target = {}

\* C8: print_merge_query prints, as one line, the statement
\* merge_tmp_into_target_tbl executes for the same arguments and columns, and runs
\* no truncate, import, MERGE or count.
C8_PrintEquivalent ==
  (pc[1] = "printed" /\ staging.columns = dataframe[1].columns) =>
    /\ stdout[1] =
         mtt_statement(pk_columns, dataframe[1].columns, exasol_schema, exasol_table,
                       mtt_tmp_schema(exasol_schema, temp_schema),
                       mtt_tmp_table(exasol_table, temp_tbl)) \o <<"\n">>
    /\ ops[1] = <<"connect", "select">>
    /\ staging.rows = <<"r0">>
    /\ target = {}

\* C8 witness: printed with the default staging location and a padded key
C8_Witness ==
  /\ pc[1] = "printed"
  /\ temp_schema = None
  /\ pk_columns = <<" ", "A", ",", "B">>
  /\ Len(staging.columns) = 2

\* C9 (as claimed): deployment lets the script continue only in an environment it is
\* enabled for.
C9_DeploymentGate ==
  d_pc # "call" =>
    /\ (prod = <<TRUE>> /\ dev = <<FALSE>>) =>
         /\ d_pc = "running" => env = <<"prod">>
         /\ env = <<"dev">> => d_pc = "exited"
    /\ (prod = <<FALSE>> /\ dev = <<TRUE>>) =>
         /\ d_pc = "running" => env = <<"dev">>
         /\ env = <<"prod">> => d_pc = "exited"
    /\ (prod = <<TRUE>> /\ dev = <<TRUE>>) => d_pc = "running"
    /\ (prod = <<FALSE>> /\ dev = <<FALSE>>) => d_pc = "exited"

\* C10: when the caller serializes the invocations, every MERGE sees exactly the
\* rows of its own dataframe; without serialization it need not.
C10_SerializedSafe ==
  serialized => \A p \in Procs : Merged(p) => merge_saw[p] = dataframe[p].rows

\* C10 witness: unserialized, invocation 1 merged the rows of invocation 2 only
C10_Witness ==
  /\ ~serialized
  /\ Merged(1)
  /\ merge_saw[1] = dataframe[2].rows

====
